---------------------------- MODULE Spec2Model ----------------------------
(***************************************************************************)
(* Model of src/main.py: the POST /pipelines/parse handler parse_pipeline  *)
(* and the analyser check_is_dag_raw (three-colour depth-first search).    *)
(*                                                                         *)
(* JSON values are modelled as strings.  "a", "b", "c" are JSON strings    *)
(* used as identifiers; EmptyStr is the JSON string "", None is Python's   *)
(* None (JSON null), JsonArray stands for a non-empty JSON array such as   *)
(* ["x"] (truthy and unhashable in Python), and Missing marks a key that   *)
(* the record does not carry at all.  The requests of the model carry      *)
(* identifiers, absent keys (which dict.get turns into None, a falsy       *)
(* value) and JSON arrays.                                                 *)
(***************************************************************************)
EXTENDS Integers, Sequences, FiniteSets, TLC

VARIABLES
    kind,      \* request body: "object", "not_object" (JSON, but no mapping) or "not_json"
    keys,      \* which of "nodes" and "edges" the body carries
    nodes,     \* the node records (of the body, or of the running call)
    edges,     \* the edge records (of the body, or of the running call)
    pc,        \* position of the handler or of check_is_dag_raw
    response,  \* the reply to the request
    order,     \* iteration order of the set node_ids of the running call
    graph,     \* local "graph" of the running call
    color,     \* local "color" of the running call
    stack,     \* activations of has_cycle: <<node, index into graph[node]>>, innermost last
    ei,        \* index of the edge loop (lines 96-100)
    ri,        \* index of the root loop (lines 116-119)
    result,    \* outcome of the call: "none", "True", "False" or "TypeError"
    log,       \* history: arguments and outcome of every completed call, in turn
    entered    \* history: how often has_cycle was entered on each node in this call

vars == <<kind, keys, nodes, edges, pc, response, order,
          graph, color, stack, ei, ri, result, log, entered>>

dfsVars == <<order, graph, color, stack, ei, ri, result, log, entered>>

---------------------------------------------------------------------------
(* Bounds of the model.                                                    *)

MaxNodes == 3

MaxEdges == 2

MaxRecords == 3

MaxRuns == 3

---------------------------------------------------------------------------
(* JSON values and Python's view of them.                                  *)

Missing == "<missing>"

None == "<None>"

EmptyStr == ""

JsonArray == "<[x]>"

Ids == {"a", "b", "c"}

\* Field values the modelled requests carry in "id", "source" and "target".
FieldValues == Ids \cup {Missing, JsonArray}

\* dict.get(key): the value, or None when the key is absent.
Get(rec, key) == IF rec[key] = Missing THEN None ELSE rec[key]

\* Python truthiness: None and "" are falsy; a non-empty string or list is truthy.
Truthy(v) == v \notin {None, EmptyStr}

\* Python hashability: a list cannot be a set element or a dict key.
Hashable(v) == v # JsonArray

WHITE == 0

GRAY == 1

BLACK == 2

OkStatus == 200

ErrStatus == 400

---------------------------------------------------------------------------
(* Sequence helpers.                                                       *)

Reverse(s) == [i \in 1..Len(s) |-> s[Len(s) + 1 - i]]

SeqsUpTo(S, n) == UNION {[1..k -> S] : k \in 0..n}

\* All iteration orders of a finite set (a Python set has no defined order).
Orders(S) == {o \in [1..Cardinality(S) -> S] : \A i, j \in 1..Cardinality(S) : i # j => o[i] # o[j]}

---------------------------------------------------------------------------
(* check_is_dag_raw, as a function of its arguments and of the iteration   *)
(* order of the set node_ids.                                              *)

\* Line 90: the set comprehension raises TypeError when a truthy id is unhashable.
NodeIdsRaises(ns) ==
    \E i \in 1..Len(ns) : Truthy(Get(ns[i], "id")) /\ ~Hashable(Get(ns[i], "id"))

\* Line 90: the truthy ids, deduplicated.
node_ids(ns) == {Get(ns[i], "id") : i \in {j \in 1..Len(ns) : Truthy(Get(ns[j], "id"))}}

\* Line 99: the condition is evaluated left to right and short-circuits;
\* "x in graph" hashes x and raises TypeError for an unhashable x.
EdgeRaises(e, ids) ==
    LET source == Get(e, "source")
        target == Get(e, "target")
    IN  /\ Truthy(source)
        /\ Truthy(target)
        /\ \/ ~Hashable(source)
           \/ source \in ids /\ ~Hashable(target)

\* Line 99: the edge enters the adjacency lists.
EdgeKept(e, ids) ==
    LET source == Get(e, "source")
        target == Get(e, "target")
    IN  /\ Truthy(source)
        /\ Truthy(target)
        /\ source \in ids
        /\ target \in ids

\* Lines 92-93: every id maps to an empty successor list.
EmptyGraph(ids) == [n \in ids |-> <<>>]

\* Lines 97-100: one iteration of the edge loop.
AddEdge(g, e) ==
    IF EdgeKept(e, DOMAIN g)
    THEN [g EXCEPT ![Get(e, "source")] = Append(@, Get(e, "target"))]
    ELSE g

RECURSIVE AddEdges(_, _, _)
\* Lines 96-100: the edge loop from index i on.
AddEdges(g, es, i) ==
    IF i > Len(es) THEN g ELSE AddEdges(AddEdge(g, es[i]), es, i + 1)

\* A colour map that outlives the call: ids seen before keep their colour.
StaleColor(ids) == [n \in ids |-> IF n \in DOMAIN color THEN color[n] ELSE WHITE]

\* Line 104: every id starts WHITE.
NewColor(ids) == [n \in ids |-> WHITE]

RECURSIVE has_cycle(_, _, _)
RECURSIVE Neighbors(_, _, _, _)
\* A two-colour search: any neighbour seen before counts as a cycle.
NeighborsVisited(g, col, node, i) ==
    IF i > Len(g[node])
    THEN [found |-> FALSE, color |-> [col EXCEPT ![node] = BLACK]]
    ELSE LET neighbor == g[node][i]
         IN  IF col[neighbor] # WHITE
             THEN [found |-> TRUE, color |-> col]
             ELSE LET r == has_cycle(g, col, neighbor)
                  IN  IF r.found THEN r ELSE Neighbors(g, r.color, node, i + 1)

\* Lines 108-114: the loop over graph[node] from index i on, then line 113.
Neighbors(g, col, node, i) ==
    IF i > Len(g[node])
    THEN [found |-> FALSE, color |-> [col EXCEPT ![node] = BLACK]]
    ELSE LET neighbor == g[node][i]
         IN  IF col[neighbor] = GRAY
             THEN [found |-> TRUE, color |-> col]
             ELSE IF col[neighbor] = WHITE
                  THEN LET r == has_cycle(g, col, neighbor)
                       IN  IF r.found THEN r ELSE Neighbors(g, r.color, node, i + 1)
                  ELSE Neighbors(g, col, node, i + 1)

\* Lines 106-114.
has_cycle(g, col, node) == Neighbors(g, [col EXCEPT ![node] = GRAY], node, 1)

RECURSIVE Roots(_, _, _, _)
\* Lines 116-121: the loop over node_ids, in iteration order ord, from index i on.
Roots(g, col, ord, i) ==
    IF i > Len(ord)
    THEN [found |-> FALSE, color |-> col]
    ELSE IF col[ord[i]] = WHITE
         THEN LET r == has_cycle(g, col, ord[i])
              IN  IF r.found THEN r ELSE Roots(g, r.color, ord, i + 1)
         ELSE Roots(g, col, ord, i + 1)

\* Lines 88-121: everything after the early return.
GeneralAlgorithm(ns, es, ord) ==
    IF NodeIdsRaises(ns) \/ \E i \in 1..Len(es) : EdgeRaises(es[i], node_ids(ns))
    THEN [raised |-> TRUE, value |-> FALSE]
    ELSE LET g == AddEdges(EmptyGraph(node_ids(ns)), es, 1)
         IN  [raised |-> FALSE, value |-> ~Roots(g, NewColor(node_ids(ns)), ord, 1).found]

\* Lines 81-121.
check_is_dag_raw(ns, es, ord) ==
    IF es = <<>>
    THEN [raised |-> FALSE, value |-> TRUE]
    ELSE GeneralAlgorithm(ns, es, ord)


---------------------------------------------------------------------------
(* parse_pipeline: the handler's return value and the response FastAPI     *)
(* builds from it.                                                         *)

Kinds == {"object", "not_object", "not_json"}

\* Lines 42-43: dict.get(key, []) on the decoded body.
BodyGet(ks, key, val) == IF key \in ks THEN val ELSE <<>>

\* Lines 62-66 and 73: the analysis result.
Analysis(n, m, dag) ==
    [content |-> "analysis", num_nodes |-> n, num_edges |-> m, is_dag |-> dag, second |-> 0]

\* Line 79: the pair ({"error": str(e)}, 400).
ErrorPair ==
    [content |-> "error_pair", num_nodes |-> 0, num_edges |-> 0, is_dag |-> FALSE,
     second |-> ErrStatus]

\* A handler that counts the filtered graph instead of the raw lists.
HandlerReturnFiltered(k, ks, ns, es, ord) ==
    IF k # "object"
    THEN ErrorPair
    ELSE LET nodes_ == BodyGet(ks, "nodes", ns)
             edges_ == BodyGet(ks, "edges", es)
             r == check_is_dag_raw(nodes_, edges_, ord)
         IN  IF r.raised
             THEN ErrorPair
             ELSE Analysis(Cardinality(node_ids(nodes_)),
                           Cardinality({i \in 1..Len(edges_) : EdgeKept(edges_[i], node_ids(nodes_))}),
                           r.value)

\* Lines 31-79: what the handler returns.
HandlerReturn(k, ks, ns, es, ord) ==
    IF k # "object"
    THEN ErrorPair   \* line 33 raises (not JSON) or line 42 raises (no .get)
    ELSE LET nodes_ == BodyGet(ks, "nodes", ns)
             edges_ == BodyGet(ks, "edges", es)
             r == check_is_dag_raw(nodes_, edges_, ord)
         IN  IF r.raised
             THEN ErrorPair
             ELSE Analysis(Len(nodes_), Len(edges_), r.value)

\* Line 26: the route declares no status_code and the handler returns plain
\* data, never a Response and never raises HTTPException: the reply is sent
\* with the route's default status, whatever the data is.
StatusOf(ret) == OkStatus

\* Lines 26-79.
parse_pipeline(k, ks, ns, es, ord) ==
    LET ret == HandlerReturn(k, ks, ns, es, ord)
    IN  [status |-> StatusOf(ret), body |-> ret]

NoResponse == [status |-> 0, body |-> Analysis(0, 0, FALSE)]

---------------------------------------------------------------------------
(* Request level: one request is received and answered.                    *)

NodeRecords(V) == [id : V]

EdgeRecords(V) == [source : V, target : V]

\* Requests as the pipeline editor sends them: every field is an identifier
\* (which an edge may use without any node declaring it).
WellFormed(ns, es) ==
    /\ ns \in SeqsUpTo(NodeRecords(Ids), MaxNodes)
    /\ es \in SeqsUpTo(EdgeRecords(Ids), MaxEdges)

\* Requests whose records carry any field value, MaxRecords records in all.
Tolerated(ns, es) ==
    \E n \in 0..MaxRecords :
       /\ ns \in [1..n -> NodeRecords(FieldValues)]
       /\ es \in SeqsUpTo(EdgeRecords(FieldValues), MaxRecords - n)

\* No call of check_is_dag_raw has started.
IdleCall ==
    /\ order = <<>>
    /\ graph = <<>>
    /\ color = <<>>
    /\ stack = <<>>
    /\ ei = 0
    /\ ri = 0
    /\ result = "none"
    /\ log = <<>>
    /\ entered = <<>>

InitRequest ==
    /\ kind \in Kinds
    /\ keys \in SUBSET {"nodes", "edges"}
    /\ IF kind = "object"
       THEN /\ WellFormed(nodes, edges) \/ Tolerated(nodes, edges)
            /\ "nodes" \notin keys => nodes = <<>>
            /\ "edges" \notin keys => edges = <<>>
       ELSE keys = {} /\ nodes = <<>> /\ edges = <<>>

Init ==
    /\ InitRequest
    /\ pc = "received"
    /\ response = NoResponse
    /\ IdleCall

\* The set node_ids of the request, were line 90 to build it.
RequestIds == node_ids(BodyGet(keys, "nodes", nodes))

ParsePipeline ==
    /\ pc = "received"
    /\ \E ord \in Orders(RequestIds) :
          response' = parse_pipeline(kind, keys, nodes, edges, ord)
    /\ pc' = "responded"
    /\ UNCHANGED <<kind, keys, nodes, edges, dfsVars>>

Next == ParsePipeline

Spec == Init /\ [][Next]_vars

---------------------------------------------------------------------------
(* Statement level: check_is_dag_raw runs one statement group at a time,   *)
(* call after call, on the arguments the handler passes at line 60.        *)

Frame(n) == [node |-> n, i |-> 1]

Top == stack[Len(stack)]

\* The call returns or raises; the caller sees res.
Finish(res) ==
    /\ result' = res
    /\ log' = Append(log, [nodes |-> nodes, edges |-> edges, result |-> res])

\* Lines 85-93: the early return, or the set node_ids and the empty graph.
Enter ==
    /\ pc = "call"
    /\ IF edges = <<>>
       THEN /\ Finish("True")
            /\ pc' = "done"
            /\ entered' = <<>>
            /\ UNCHANGED <<order, graph, ei>>
       ELSE IF NodeIdsRaises(nodes)
            THEN /\ Finish("TypeError")
                 /\ pc' = "raised"
                 /\ entered' = <<>>
                 /\ UNCHANGED <<order, graph, ei>>
            ELSE /\ \E ord \in Orders(node_ids(nodes)) : order' = ord
                 /\ graph' = EmptyGraph(node_ids(nodes))
                 /\ ei' = 1
                 /\ pc' = "edges"
                 /\ entered' = [n \in node_ids(nodes) |-> 0]
                 /\ UNCHANGED <<result, log>>
    /\ UNCHANGED <<kind, keys, nodes, edges, response, color, stack, ri>>

\* Lines 96-100: one iteration of the edge loop.
EdgeStep ==
    /\ pc = "edges"
    /\ ei <= Len(edges)
    /\ IF EdgeRaises(edges[ei], DOMAIN graph)
       THEN /\ Finish("TypeError")
            /\ pc' = "raised"
            /\ UNCHANGED <<graph, ei>>
       ELSE /\ graph' = AddEdge(graph, edges[ei])
            /\ ei' = ei + 1
            /\ UNCHANGED <<pc, result, log>>
    /\ UNCHANGED <<kind, keys, nodes, edges, response, order, color, stack, ri, entered>>

\* Lines 103-104: the edge loop is over; the colour map is built.
InitColor ==
    /\ pc = "edges"
    /\ ei > Len(edges)
    /\ color' = NewColor(DOMAIN graph)
    /\ stack' = <<>>
    /\ ri' = 1
    /\ pc' = "roots"
    /\ UNCHANGED <<kind, keys, nodes, edges, response, order, graph, ei, result, log, entered>>

\* Lines 116-118 (and 107 of the callee): one iteration of the root loop.
RootStep ==
    /\ pc = "roots"
    /\ ri <= Len(order)
    /\ IF color[order[ri]] = WHITE
       THEN /\ stack' = <<Frame(order[ri])>>
            /\ color' = [color EXCEPT ![order[ri]] = GRAY]
            /\ entered' = [entered EXCEPT ![order[ri]] = @ + 1]
            /\ pc' = "dfs"
            /\ UNCHANGED ri
       ELSE /\ ri' = ri + 1
            /\ UNCHANGED <<stack, color, entered, pc>>
    /\ UNCHANGED <<kind, keys, nodes, edges, response, order, graph, ei, result, log>>

\* Line 121: every root was tried.
RootsDone ==
    /\ pc = "roots"
    /\ ri > Len(order)
    /\ Finish("True")
    /\ pc' = "done"
    /\ UNCHANGED <<kind, keys, nodes, edges, response, order, graph, color, stack, ei, ri, entered>>

\* Lines 109-110, then 112 in every caller and 119: a GRAY neighbour.
NeighborGray ==
    /\ pc = "dfs"
    /\ Top.i <= Len(graph[Top.node])
    /\ color[graph[Top.node][Top.i]] = GRAY
    /\ stack' = <<>>
    /\ Finish("False")
    /\ pc' = "done"
    /\ UNCHANGED <<kind, keys, nodes, edges, response, order, graph, color, ei, ri, entered>>

\* Lines 111 and 107: a WHITE neighbour is entered.
NeighborWhite ==
    /\ pc = "dfs"
    /\ Top.i <= Len(graph[Top.node])
    /\ LET neighbor == graph[Top.node][Top.i]
       IN  /\ color[neighbor] = WHITE
           /\ stack' = Append(stack, Frame(neighbor))
           /\ color' = [color EXCEPT ![neighbor] = GRAY]
           /\ entered' = [entered EXCEPT ![neighbor] = @ + 1]
    /\ UNCHANGED <<kind, keys, nodes, edges, response, order, graph, ei, ri, pc, result, log>>

\* Lines 108-111: a BLACK neighbour is passed over.
NeighborBlack ==
    /\ pc = "dfs"
    /\ Top.i <= Len(graph[Top.node])
    /\ color[graph[Top.node][Top.i]] = BLACK
    /\ stack' = [stack EXCEPT ![Len(stack)].i = @ + 1]
    /\ UNCHANGED <<kind, keys, nodes, edges, response, order, graph, color, ei, ri, pc, result, log, entered>>

\* A return that forgets the node: it turns WHITE again.
ReturnToWhite ==
    /\ pc = "dfs"
    /\ Top.i > Len(graph[Top.node])
    /\ color' = [color EXCEPT ![Top.node] = WHITE]
    /\ IF Len(stack) = 1
       THEN /\ stack' = <<>>
            /\ ri' = ri + 1
            /\ pc' = "roots"
       ELSE /\ stack' = [SubSeq(stack, 1, Len(stack) - 1) EXCEPT ![Len(stack) - 1].i = @ + 1]
            /\ UNCHANGED <<ri, pc>>
    /\ UNCHANGED <<kind, keys, nodes, edges, response, order, graph, ei, result, log, entered>>

\* Lines 113-114: the loop is over; the node turns BLACK and the caller goes on.
Return ==
    /\ pc = "dfs"
    /\ Top.i > Len(graph[Top.node])
    /\ color' = [color EXCEPT ![Top.node] = BLACK]
    /\ IF Len(stack) = 1
       THEN /\ stack' = <<>>
            /\ ri' = ri + 1
            /\ pc' = "roots"
       ELSE /\ stack' = [SubSeq(stack, 1, Len(stack) - 1) EXCEPT ![Len(stack) - 1].i = @ + 1]
            /\ UNCHANGED <<ri, pc>>
    /\ UNCHANGED <<kind, keys, nodes, edges, response, order, graph, ei, result, log, entered>>

Request(ns, es) == [nodes |-> ns, edges |-> es]

Declared(k) == [i \in 1..k |-> [id |-> <<"a", "b", "c">>[i]]]

\* Node lists of the statement-level runs: the first ids declared in turn,
\* or all of them followed by a record without an id or with a JSON array as id.
DfsNodeLists ==
    {Declared(k) : k \in 0..3} \cup {Append(Declared(3), r) : r \in NodeRecords({Missing, JsonArray})}

\* Requests of other clients: the edge a -> b, and the cycle a -> b -> a.
OtherRequests ==
    {Request(Declared(2), <<[source |-> "a", target |-> "b"]>>),
     Request(Declared(2), <<[source |-> "a", target |-> "b"], [source |-> "b", target |-> "a"]>>)}

\* Line 60 again: the handler of a later request calls check_is_dag_raw,
\* with the arguments of an earlier request or with another request's.
NextRequest ==
    /\ pc \in {"done", "raised"}
    /\ Len(log) < MaxRuns
    /\ \E req \in {Request(log[i].nodes, log[i].edges) : i \in DOMAIN log} \cup OtherRequests :
          /\ nodes' = req.nodes
          /\ edges' = req.edges
    /\ pc' = "call"
    /\ result' = "none"
    /\ UNCHANGED <<kind, keys, response, order, graph, color, stack, ei, ri, log, entered>>

InitDFS ==
    /\ kind = "object"
    /\ keys = {"nodes", "edges"}
    /\ nodes \in DfsNodeLists
    /\ edges \in SeqsUpTo(EdgeRecords(Ids), MaxEdges)
    /\ pc = "call"
    /\ response = NoResponse
    /\ IdleCall

\* The statements of one call.
StepDFS ==
    \/ Enter
    \/ EdgeStep
    \/ InitColor
    \/ RootStep
    \/ RootsDone
    \/ NeighborGray
    \/ NeighborWhite
    \/ NeighborBlack
    \/ Return

NextDFS == StepDFS \/ NextRequest

\* A started call keeps running: the traversal is synchronous code.
SpecDFS == InitDFS /\ [][NextDFS]_vars /\ WF_vars(StepDFS)

---------------------------------------------------------------------------
(* The graph a request describes, defined without the traversal.           *)

\* The node and edge lists the handler extracts from the body (lines 42-43).
ReqNodes == BodyGet(keys, "nodes", nodes)

ReqEdges == BodyGet(keys, "edges", edges)

Present(v) == v \notin {Missing, None, EmptyStr}

\* Vertices: the truthy node ids.
Vertices(ns) == {ns[i].id : i \in {j \in 1..Len(ns) : Present(ns[j].id)}}

\* An edge record whose source and target are both truthy and both valid node ids.
ValidEdge(e, ns) ==
    /\ Present(e.source)
    /\ Present(e.target)
    /\ e.source \in Vertices(ns)
    /\ e.target \in Vertices(ns)

Arcs(ns, es) == {<<es[i].source, es[i].target>> : i \in {j \in 1..Len(es) : ValidEdge(es[j], ns)}}

Successors(S, A) == {a[2] : a \in {b \in A : b[1] \in S}}

RECURSIVE ReachableIn(_, _, _)
\* The vertices reached from S by one to k arcs.
ReachableIn(S, A, k) ==
    IF k = 0 THEN {} ELSE Successors(S, A) \cup ReachableIn(Successors(S, A), A, k - 1)

\* Some vertex reaches itself along one or more arcs.
HasDirectedCycle(ns, es) ==
    \E v \in Vertices(ns) : v \in ReachableIn({v}, Arcs(ns, es), Cardinality(Vertices(ns)))

RECURSIVE KeepValid(_, _, _)
\* The edge list es[i..] without the records that are not valid edges.
KeepValid(ns, es, i) ==
    IF i > Len(es) THEN <<>>
    ELSE IF ValidEdge(es[i], ns)
         THEN <<es[i]>> \o KeepValid(ns, es, i + 1)
         ELSE KeepValid(ns, es, i + 1)

Responded == pc = "responded"

\* What a reply says about the graph: an analysis with its is_dag, or an error.
Outcome(ret) == [content |-> ret.content, is_dag |-> ret.is_dag]

Analysed == Responded /\ response.body.content = "analysis"

Returned == pc \in {"done", "raised"}

---------------------------------------------------------------------------
(* Claims.                                                                 *)

\* C1: for every request with a non-empty edge list the reply carries
\* is_dag = true exactly when the filtered graph has no directed cycle.
C1_IsDagIffAcyclic ==
    Responded /\ kind = "object" /\ ReqEdges # <<>> =>
        /\ response.body.content = "analysis"
        /\ response.body.is_dag = ~HasDirectedCycle(ReqNodes, ReqEdges)

\* C2: a body that cannot be decoded as the expected structure is answered
\* with a client error (a 4xx status), never with a success status.
C2_MalformedBodyIsClientError ==
    Responded /\ kind # "object" => response.status \in 400..499

\* C3: check_is_dag_raw never raises for the shape of a record's values: every
\* call on lists of mappings returns a boolean.
C3_NeverRaises == Returned => result \in {"True", "False"}

\* C4: in every analysis result num_nodes and num_edges are the lengths of the
\* raw lists (0 for a missing key), invalid and duplicate records included.
C4_RawCounts ==
    Analysed =>
        /\ response.body.num_nodes = (IF "nodes" \in keys THEN Len(nodes) ELSE 0)
        /\ response.body.num_edges = (IF "edges" \in keys THEN Len(edges) ELSE 0)

\* C4 witness: an analysis of a request with a node that has no truthy id, a
\* duplicate id being counted or not, and an edge dropped from adjacency.
C4_Witness ==
    /\ Analysed
    /\ \E i \in 1..Len(nodes) : ~Present(nodes[i].id)
    /\ \E i \in 1..Len(edges) : ~ValidEdge(edges[i], nodes)
    /\ response.body.num_nodes > Cardinality(Vertices(nodes))
    /\ response.body.num_edges > Cardinality(Arcs(nodes, edges))

\* C5: a request whose last edge is a self-loop on an existing node is
\* answered with is_dag = false.
C5_SelfLoopNotDag ==
    Responded /\ kind = "object" /\ ReqEdges # <<>> =>
        LET e == ReqEdges[Len(ReqEdges)]
        IN  e.source = e.target /\ e.source \in Vertices(ReqNodes) =>
               /\ response.body.content = "analysis"
               /\ response.body.is_dag = FALSE

\* C6: is_dag is that of the same request without its invalid edges, and a
\* request with no nodes is answered num_nodes = 0, is_dag = true.
C6_OnlyValidEdgesMatter ==
    Responded /\ kind = "object" =>
        /\ response.body.content = "analysis"
        /\ \A ord \in Orders(RequestIds) :
              LET r == check_is_dag_raw(ReqNodes, KeepValid(ReqNodes, ReqEdges, 1), ord)
              IN  ~r.raised /\ r.value = response.body.is_dag
        /\ ReqNodes = <<>> => response.body.num_nodes = 0 /\ response.body.is_dag

\* C7: with an empty edge list is_dag = true, and the general algorithm run
\* on the same input has the same outcome as the early return.
C7_EarlyReturnEquivalent ==
    Responded /\ kind = "object" /\ ReqEdges = <<>> =>
        /\ response.body.content = "analysis"
        /\ response.body.is_dag
        /\ \A ord \in Orders(RequestIds) :
              GeneralAlgorithm(ReqNodes, ReqEdges, ord) = check_is_dag_raw(ReqNodes, ReqEdges, ord)

C9_Stateless ==
    \A i, j \in DOMAIN log :
        log[i].nodes = log[j].nodes /\ log[i].edges = log[j].edges => log[i].result = log[j].result

\* C9 witness: a cyclic request analysed, then an acyclic one, then the first again.
C9_Witness ==
    /\ Len(log) = 3
    /\ Request(log[1].nodes, log[1].edges) = Request(log[3].nodes, log[3].edges)
    /\ Request(log[1].nodes, log[1].edges) # Request(log[2].nodes, log[2].edges)
    /\ log[1].result = "False"
    /\ log[2].result = "True"

WhiteCount == Cardinality({n \in DOMAIN color : color[n] = WHITE})

RECURSIVE StackWork(_)
\* Loop iterations the activations s still have to run, one more for each return.
StackWork(s) ==
    IF s = <<>> THEN 0
    ELSE Len(graph[s[1].node]) + 2 - s[1].i + StackWork(Tail(s))

\* A natural number that every statement of a call decreases.
Measure ==
    LET c == Len(edges) + 2
        traversal(k) == k * c + k + 2
    IN  CASE pc = "call" -> traversal(Cardinality(node_ids(nodes))) + Len(edges) + 2
          [] pc = "edges" -> traversal(Cardinality(DOMAIN graph)) + Len(edges) + 1 - ei
          [] pc \in {"roots", "dfs"} -> WhiteCount * c + StackWork(stack) + Len(order) + 2 - ri
          [] OTHER -> 0

InTraversal == pc \in {"roots", "dfs"}

=============================================================================
